---------------------------- MODULE Spec2Model ----------------------------
(***************************************************************************)
(* Model of the Ollama proxy (src/main.py): the backend registry parsed    *)
(* from OLLAMA_INSTANCES, the verify_token dependency, the four route      *)
(* handlers and the forwarding engine proxy_request with its buffered and  *)
(* its streaming relay.                                                    *)
(*                                                                         *)
(* Representation.                                                         *)
(*  - A text whose characters matter (the secret, an Authorization value,  *)
(*    any header value) is a sequence of one-character strings.            *)
(*  - A request path is the sequence of its "/"-separated segments after   *)
(*    the leading slash: "/" is <<"">>, "/a/" is <<"a", "">>, "/a/b" is    *)
(*    <<"a", "b">>.  Splitting on "/" is a bijection between texts and     *)
(*    non-empty sequences of slash-free segments, so f"{x}/{y}" is the     *)
(*    concatenation of the two sequences.                                  *)
(*  - OLLAMA_INSTANCES is the sequence of its ","-separated entries, each  *)
(*    the sequence of its ":"-separated parts.                             *)
(*  - An Optional value is a sequence of length 0 (None) or 1.             *)
(*  - A Python dict is a sequence of <<key, value>> pairs with distinct    *)
(*    keys, in insertion order.                                            *)
(***************************************************************************)
EXTENDS Naturals, Sequences, FiniteSets

VARIABLES
    OLLAMA_INSTANCES,   \* the configuration text, fixed at startup
    API_TOKEN,          \* the secret, fixed at startup (<<>> = not set)
    BACKENDS,           \* dict name -> base URL
    DEFAULT_BACKEND,    \* base URL used for default routing
    rq                  \* per connection: the request in flight and its reply

vars == <<OLLAMA_INSTANCES, API_TOKEN, BACKENDS, DEFAULT_BACKEND, rq>>

---------------------------------------------------------------------------
(* Bounds of the model.                                                    *)

MaxPathLen == 2
MaxPieces == 3
MaxHeaders == 2
MaxChunks == 2

\* Entries of a configuration string.
MaxEntries == 2

---------------------------------------------------------------------------
(* Generic helpers.                                                        *)

\* All sequences over S of length at most n.
SeqsUpTo(S, n) ==
    UNION {[1..k -> S] : k \in 0..n}

RECURSIVE Concat(_)
\* The concatenation of a sequence of sequences.
Concat(ss) ==
    IF ss = <<>> THEN <<>> ELSE Head(ss) \o Concat(Tail(ss))

IsPrefix(s, t) ==
    /\ Len(s) <= Len(t)
    /\ SubSeq(t, 1, Len(s)) = s

\* s[i..] starts with pat.
StartsWithAt(s, i, pat) ==
    /\ i + Len(pat) - 1 <= Len(s)
    /\ SubSeq(s, i, i + Len(pat) - 1) = pat

---------------------------------------------------------------------------
(* Python dict operations on sequences of <<key, value>> pairs.            *)

DictKeys(d) ==
    [i \in 1..Len(d) |-> d[i][1]]

DictHas(d, k) ==
    \E i \in 1..Len(d) : d[i][1] = k

DictGet(d, k) ==
    d[CHOOSE i \in 1..Len(d) : d[i][1] = k][2]

\* d[k] = v: an existing key keeps its position, a new key goes last.
DictSet_mut_keep_first(d, k, v) ==
    IF DictHas(d, k) THEN d ELSE Append(d, <<k, v>>)

DictSet(d, k, v) ==
    IF DictHas(d, k)
    THEN [i \in 1..Len(d) |-> IF d[i][1] = k THEN <<k, v>> ELSE d[i]]
    ELSE Append(d, <<k, v>>)

RECURSIVE DictFromItems(_)
\* {k: v for k, v in items}: built left to right.
DictFromItems(items) ==
    IF items = <<>> THEN <<>>
    ELSE LET n == Len(items)
         IN  DictSet(DictFromItems(SubSeq(items, 1, n - 1)), items[n][1], items[n][2])

---------------------------------------------------------------------------
(* Backend registry: parse_ollama_instances, BACKENDS, DEFAULT_BACKEND.    *)

FALLBACK_BACKEND == <<"localhost", "11434">>

\* f"http://{host}:{port}"
Url(host, port) == <<host, port>>

\* str.strip() on the texts a configuration entry begins or ends with.
lstrip_text(t) ==
    CASE t = " "  -> ""
      [] t = " b" -> "b"
      [] OTHER    -> t

rstrip_text(t) ==
    CASE t = " "      -> ""
      [] t = "11435 " -> "11435"
      [] OTHER        -> t

\* instance_config.strip().split(":") on an entry given by its ":"-parts:
\* the blanks before the first part and after the last one go.
strip_split(parts) ==
    [i \in 1..Len(parts) |->
        LET l == IF i = 1 THEN lstrip_text(parts[i]) ELSE parts[i]
        IN  IF i = Len(parts) THEN rstrip_text(l) ELSE l]

RECURSIVE ParseEntries(_)
ParseEntries(entries) ==
    IF entries = <<>> THEN <<>>
    ELSE LET n     == Len(entries)
             done  == ParseEntries(SubSeq(entries, 1, n - 1))
             parts == strip_split(entries[n])
         IN  IF Len(parts) = 3
             THEN DictSet(done, parts[1], Url(parts[2], parts[3]))
             ELSE IF Len(parts) = 2
                  THEN DictSet(done, parts[1], Url("localhost", parts[2]))
                  ELSE done

parse_ollama_instances(config) ==
    ParseEntries(config)

default_backend_mut_other_fallback(backends) ==
    IF Len(backends) > 0 THEN backends[1][2] ELSE <<"localhost", "8080">>

default_backend(backends) ==
    IF Len(backends) > 0 THEN backends[1][2] ELSE FALLBACK_BACKEND

get_backend_url(backends, dflt, instance_name) ==
    IF instance_name # <<>> /\ instance_name[1] # "" /\ DictHas(backends, instance_name[1])
    THEN DictGet(backends, instance_name[1])
    ELSE dflt

---------------------------------------------------------------------------
(* Authenticator: verify_token.                                            *)

BEARER == <<"B", "e", "a", "r", "e", "r", " ">>

RECURSIVE ReplaceFrom(_, _, _)
\* str.replace(pat, ""): leftmost non-overlapping occurrences are removed,
\* the result is not scanned again.
ReplaceFrom(s, i, pat) ==
    IF i > Len(s) THEN <<>>
    ELSE IF StartsWithAt(s, i, pat)
         THEN ReplaceFrom(s, i + Len(pat), pat)
         ELSE <<s[i]>> \o ReplaceFrom(s, i + 1, pat)

Replace(s, pat) ==
    ReplaceFrom(s, 1, pat)

IsSpace(c) == c = " "

RECURSIVE LStrip(_)
LStrip(s) ==
    IF s # <<>> /\ IsSpace(Head(s)) THEN LStrip(Tail(s)) ELSE s

RECURSIVE RStrip(_)
RStrip(s) ==
    IF s # <<>> /\ IsSpace(s[Len(s)]) THEN RStrip(SubSeq(s, 1, Len(s) - 1)) ELSE s

\* str.strip()
Strip(s) ==
    RStrip(LStrip(s))

\* token = authorization.replace("Bearer ", "").strip()
extract_token(value) ==
    Strip(Replace(value, BEARER))

Allowed == [allowed |-> TRUE, status_code |-> 0, detail |-> "", headers |-> <<>>]

Denied(status, detail, headers) ==
    [allowed |-> FALSE, status_code |-> status, detail |-> detail, headers |-> headers]

\* The outcome of verify_token for a secret and an Optional header value; a
\* denial is the HTTPException it raises.  "not authorization" is true of
\* None and of the empty text.
verify_token_mut_no_open_mode(token, authorization) ==
    IF authorization = <<>> \/ authorization[1] = <<>>
    THEN Denied(401, "Missing Authorization header",
                << <<"WWW-Authenticate", "Bearer">> >>)
    ELSE IF extract_token(authorization[1]) # token
         THEN Denied(403, "Invalid authentication token", <<>>)
         ELSE Allowed

verify_token(token, authorization) ==
    IF token = <<>> THEN Allowed
    ELSE IF authorization = <<>> \/ authorization[1] = <<>>
         THEN Denied(401, "Missing Authorization header",
                     << <<"WWW-Authenticate", "Bearer">> >>)
         ELSE IF extract_token(authorization[1]) # token
              THEN Denied(403, "Invalid authentication token", <<>>)
              ELSE Allowed

---------------------------------------------------------------------------
(* json.loads on the texts the model uses.  A scalar is <<type, text>>; a   *)
(* parsed text is a record of its type, the fields of an object and the    *)
(* literal of any other value.                                             *)

JsonTable ==
    << <<"{\"stream\": true}",    "object", << <<"stream", <<"bool", "true">> >> >> >>,
       <<"{\"stream\": false}",   "object", << <<"stream", <<"bool", "false">> >> >> >>,
       <<"{\"stream\": 1}",       "object", << <<"stream", <<"number", "1">> >> >> >>,
       <<"{\"stream\": 0}",       "object", << <<"stream", <<"number", "0">> >> >> >>,
       <<"{\"stream\": \"yes\"}", "object", << <<"stream", <<"string", "yes">> >> >> >>,
       <<"{\"stream\": null}",    "object", << <<"stream", <<"null", "">> >> >> >>,
       <<"{\"stream\": \"\"}",    "object", << <<"stream", <<"string", "">> >> >> >>,
       <<"{\"stream\": [1]}",     "object", << <<"stream", <<"array", "[1]">> >> >> >>,
       <<"{\"stream\": []}",      "object", << <<"stream", <<"array", "[]">> >> >> >>,
       <<"{\"model\": \"m\"}",    "object", << <<"model", <<"string", "m">> >> >> >>,
       <<"{\"ok\": 1}",           "object", << <<"ok", <<"number", "1">> >> >> >>,
       <<"[true]",                "array",  <<>> >>,
       <<"true",                  "bool",   <<>> >> >>

\* <<>> when json.loads raises, else <<value>>.
json_loads(text) ==
    IF \E i \in 1..Len(JsonTable) : JsonTable[i][1] = text
    THEN LET e == JsonTable[CHOOSE i \in 1..Len(JsonTable) : JsonTable[i][1] = text]
         IN  << [type    |-> e[2],
                 fields  |-> e[3],
                 literal |-> IF e[2] = "object" THEN "" ELSE e[1]] >>
    ELSE <<>>

\* The empty dict {}.
EMPTY_OBJECT == [type |-> "object", fields |-> <<>>, literal |-> ""]

\* Python truth value of a parsed member value <<type, text>>.
Truthy(v) ==
    CASE v[1] = "bool"   -> v[2] = "true"
      [] v[1] = "number" -> v[2] # "0"
      [] v[1] = "string" -> v[2] # ""
      [] v[1] = "array"  -> v[2] # "[]"
      [] OTHER           -> FALSE

\* Lines 193-200: is_stream_request as the later "if is_stream_request" reads
\* it.  body_json.get raises on a value that is not an object, and the bare
\* except leaves the flag False.
sniff_stream_mut_true_only(body) ==
    body = "{\"stream\": true}"

sniff_stream(body) ==
    IF body = "" THEN FALSE
    ELSE LET parsed == json_loads(body)
         IN  IF parsed = <<>> THEN FALSE
             ELSE IF parsed[1].type # "object" THEN FALSE
                  ELSE IF DictHas(parsed[1].fields, "stream")
                       THEN Truthy(DictGet(parsed[1].fields, "stream"))
                       ELSE FALSE

---------------------------------------------------------------------------
(* Header handling.                                                        *)

\* str.lower() on header names.
Lower(name) ==
    CASE name = "Host"          -> "host"
      [] name = "Authorization" -> "authorization"
      [] name = "Connection"    -> "connection"
      [] OTHER                  -> name

\* request.headers.get("authorization"): the first header of that name.
header_get(headers, name) ==
    IF \E i \in 1..Len(headers) : headers[i][1] = name
    THEN << headers[CHOOSE i \in 1..Len(headers) :
                      /\ headers[i][1] = name
                      /\ \A j \in 1..(i - 1) : headers[j][1] # name][2] >>
    ELSE <<>>

RECURSIVE FilterItems(_, _)
FilterItems(items, excluded) ==
    IF items = <<>> THEN <<>>
    ELSE LET rest == FilterItems(Tail(items), excluded)
         IN  IF Lower(Head(items)[1]) \in excluded THEN rest ELSE <<Head(items)>> \o rest

REQUEST_EXCLUDED == {"host", "authorization"}

RESPONSE_EXCLUDED == {"content-encoding", "content-length", "transfer-encoding", "connection"}

\* Lines 219-223: a dict comprehension over request.headers.items().
forward_headers(headers) ==
    DictFromItems(FilterItems(headers, REQUEST_EXCLUDED))

\* Lines 294-297.
relay_headers_mut_keep_connection(headers) ==
    DictFromItems(FilterItems(headers, RESPONSE_EXCLUDED \ {"connection"}))

relay_headers(headers) ==
    DictFromItems(FilterItems(headers, RESPONSE_EXCLUDED))

---------------------------------------------------------------------------
(* Route resolution, as the router does it: routes are tried in the order  *)
(* of their registration, and a route matches on path and method.          *)

METHODS == {"GET", "POST", "PUT", "DELETE", "PATCH", "OPTIONS"}

\* "/{instance}/{path:path}": a non-empty first segment followed by a slash.
MatchesInstanceRoute_mut_no_slash(path) ==
    /\ Len(path) >= 1
    /\ path[1] # ""

MatchesInstanceRoute(path) ==
    /\ Len(path) >= 2
    /\ path[1] # ""

\* The handler that serves a request with a method of METHODS.
resolve_route(method, path) ==
    IF method = "GET" /\ path = <<"">> THEN "root"
    ELSE IF method = "GET" /\ path = <<"health">> THEN "health"
    ELSE IF MatchesInstanceRoute(path) THEN "proxy_with_instance"
    ELSE "proxy_default"

---------------------------------------------------------------------------
(* The state of one connection.                                            *)

CONNECTIONS == {"c1", "c2"}

NoRequest ==
    [ pc                |-> "idle",
      \* the inbound request
      method            |-> "",
      path              |-> <<>>,
      headers           |-> <<>>,
      query             |-> "",
      body              |-> "",
      \* the handler and its locals
      route             |-> "",
      auth_checked      |-> FALSE,
      body_read         |-> FALSE,
      target_url        |-> <<>>,
      instance_name     |-> "",
      is_stream_request |-> FALSE,
      \* the backend side
      outbound          |-> <<>>,
      client            |-> "none",
      backend           |-> <<>>,
      received          |-> <<>>,
      failure           |-> "none",
      \* the reply to the caller
      started           |-> FALSE,
      status_code       |-> 0,
      resp_headers      |-> <<>>,
      content           |-> <<>>,
      delivered         |-> <<>>,
      complete          |-> FALSE,
      \* the caller has gone away before the reply was over
      disconnected      |-> FALSE ]

\* A complete reply with a JSON body.
JsonReply(q, status, headers, content) ==
    [q EXCEPT !.pc = "done", !.started = TRUE, !.status_code = status,
              !.resp_headers = headers, !.content = content, !.complete = TRUE]

\* raise HTTPException(status_code, detail, headers): the framework answers
\* {"detail": detail}.
HttpException(q, status, detail, headers) ==
    JsonReply(q, status, headers, <<"detail", detail>>)

---------------------------------------------------------------------------
(* Startup: lines 44, 53, 72, 73.                                          *)

Startup(configs, tokens) ==
    /\ OLLAMA_INSTANCES \in configs
    /\ API_TOKEN \in tokens
    /\ BACKENDS = parse_ollama_instances(OLLAMA_INSTANCES)
    /\ DEFAULT_BACKEND = default_backend(BACKENDS)
    /\ rq = [c \in CONNECTIONS |-> NoRequest]

Frozen == UNCHANGED <<OLLAMA_INSTANCES, API_TOKEN, BACKENDS, DEFAULT_BACKEND>>

---------------------------------------------------------------------------
(* The router: a request arrives and is matched to its handler.            *)

Receive(c, methods, paths, headerlists, queries, bodies) ==
    /\ rq[c].pc = "idle"
    /\ \E m \in methods, p \in paths, h \in headerlists, qs \in queries, b \in bodies :
          rq' = [rq EXCEPT ![c] =
                    [NoRequest EXCEPT !.pc = "matched", !.method = m, !.path = p,
                                      !.headers = h, !.query = qs, !.body = b,
                                      !.route = resolve_route(m, p)]]
    /\ Frozen

\* Lines 119-127.
root(c) ==
    /\ rq[c].pc = "matched"
    /\ rq[c].route = "root"
    /\ rq' = [rq EXCEPT ![c] =
                 JsonReply(@, 200, <<>>,
                           <<"service", "Ollama Proxy", "status", "running",
                             "backends", DictKeys(BACKENDS),
                             "authentication",
                             IF API_TOKEN # <<>> THEN "enabled" ELSE "disabled">>)]
    /\ Frozen

\* Lines 130-133.
health(c) ==
    /\ rq[c].pc = "matched"
    /\ rq[c].route = "health"
    /\ rq' = [rq EXCEPT ![c] = JsonReply(@, 200, <<>>, <<"status", "healthy">>)]
    /\ Frozen

\* Depends(verify_token) of the two proxy routes: resolved before the
\* handler's body runs.
authenticate(c) ==
    /\ rq[c].pc = "matched"
    /\ rq[c].route \in {"proxy_with_instance", "proxy_default"}
    /\ LET v == verify_token(API_TOKEN, header_get(rq[c].headers, "authorization"))
       IN  rq' = [rq EXCEPT ![c] =
                     IF v.allowed
                     THEN [@ EXCEPT !.pc = "handler", !.auth_checked = TRUE]
                     ELSE HttpException([@ EXCEPT !.auth_checked = TRUE],
                                        v.status_code, v.detail, v.headers)]
    /\ Frozen

\* Lines 149-160: the target of proxy_with_instance(instance, path).
instance_target_mut_default(backends, dflt, instance, path) ==
    [base |-> dflt, path |-> path, label |-> "default"]

instance_target_mut_drop_segment(backends, dflt, instance, path) ==
    IF DictHas(backends, instance)
    THEN [base |-> DictGet(backends, instance), path |-> path, label |-> instance]
    ELSE [base |-> dflt, path |-> path, label |-> "default"]

instance_target(backends, dflt, instance, path) ==
    IF DictHas(backends, instance)
    THEN [base |-> DictGet(backends, instance), path |-> path, label |-> instance]
    ELSE [base  |-> dflt,
          path  |-> IF path # <<"">> THEN <<instance>> \o path ELSE <<instance>>,
          label |-> "default"]

\* Lines 136-160.
proxy_with_instance_mut_sticky(c) ==
    /\ rq[c].pc = "handler"
    /\ rq[c].route = "proxy_with_instance"
    /\ LET t == instance_target(BACKENDS, DEFAULT_BACKEND,
                                Head(rq[c].path), Tail(rq[c].path))
       IN  /\ rq' = [rq EXCEPT ![c] =
                        [@ EXCEPT !.pc = "proxy_request",
                                  !.target_url = << [base |-> t.base, path |-> t.path] >>,
                                  !.instance_name = t.label]]
           /\ DEFAULT_BACKEND' = t.base
    /\ UNCHANGED <<OLLAMA_INSTANCES, API_TOKEN, BACKENDS>>

proxy_with_instance(c) ==
    /\ rq[c].pc = "handler"
    /\ rq[c].route = "proxy_with_instance"
    /\ LET t == instance_target(BACKENDS, DEFAULT_BACKEND,
                                Head(rq[c].path), Tail(rq[c].path))
       IN  rq' = [rq EXCEPT ![c] =
                     [@ EXCEPT !.pc = "proxy_request",
                               !.target_url = << [base |-> t.base, path |-> t.path] >>,
                               !.instance_name = t.label]]
    /\ Frozen

\* Line 174: the paths proxy_default answers itself.
is_local_path_mut_none(path) ==
    FALSE

is_local_path(path) ==
    path \in {<<"">>, <<"health">>}

\* Lines 163-180.
proxy_default(c) ==
    /\ rq[c].pc = "handler"
    /\ rq[c].route = "proxy_default"
    /\ rq' = [rq EXCEPT ![c] =
                 IF is_local_path(rq[c].path)
                 THEN JsonReply(@, 200, <<>>, <<"status", "ok">>)
                 ELSE [@ EXCEPT !.pc = "proxy_request",
                                !.target_url = << [base |-> DEFAULT_BACKEND,
                                                   path |-> rq[c].path] >>,
                                !.instance_name = "default"]]
    /\ Frozen

---------------------------------------------------------------------------
(* The forwarding engine: proxy_request.                                   *)

\* Lines 188-228: read the body, sniff the stream flag; the outbound
\* request is then built from the locals body, headers and target_url.
proxy_request(c) ==
    /\ rq[c].pc = "proxy_request"
    /\ rq' = [rq EXCEPT ![c] =
                 [@ EXCEPT !.pc = "relay", !.body_read = TRUE,
                           !.is_stream_request = sniff_stream(rq[c].body)]]
    /\ Frozen

\* The arguments of client.stream (lines 238-244) and client.request (lines
\* 267-273).
outbound_request(q) ==
    [ method  |-> q.method,
      url     |-> q.target_url[1],
      content |-> q.body,
      headers |-> forward_headers(q.headers),
      params  |-> q.query ]

\* Lines 305-322: the except clauses of proxy_request.
error_status(kind) ==
    CASE kind = "ConnectError"     -> 502
      [] kind = "TimeoutException" -> 504
      [] OTHER                     -> 500

error_detail(kind) ==
    CASE kind = "ConnectError"     -> "Cannot connect to Ollama backend"
      [] kind = "TimeoutException" -> "Ollama backend timeout"
      [] OTHER                     -> "Proxy error"

FAILURES == {"ConnectError", "TimeoutException", "Exception"}

(* Buffered relay, lines 265-303. *)

buffered_send(c) ==
    /\ rq[c].pc = "relay"
    /\ ~rq[c].is_stream_request
    /\ rq' = [rq EXCEPT ![c] =
                 [@ EXCEPT !.pc = "buffered_wait", !.client = "open",
                           !.outbound = Append(@, outbound_request(rq[c]))]]
    /\ Frozen

\* Lines 282-289: the relayed content, the value JSONResponse renders:
\* response.json() if response.text else {}, and {"raw_response": text}
\* when response.json() raises.
buffered_content_mut_always_raw(text) ==
    <<"raw_response", text>>

buffered_content_mut_raise(text) ==
    IF text = "" THEN <<"json", EMPTY_OBJECT>>
    ELSE IF json_loads(text) # <<>> THEN <<"json", json_loads(text)[1]>>
         ELSE <<"detail", "Proxy error">>

buffered_content(text) ==
    IF text = "" THEN <<"json", EMPTY_OBJECT>>
    ELSE IF json_loads(text) # <<>> THEN <<"json", json_loads(text)[1]>>
         ELSE <<"raw_response", text>>

\* The backend answers; lines 275-303.  Leaving the "async with" closes the
\* client.
buffered_response(c, statuses, headerlists, texts) ==
    /\ rq[c].pc = "buffered_wait"
    /\ \E st \in statuses, h \in headerlists, t \in texts :
          rq' = [rq EXCEPT ![c] =
                    JsonReply([@ EXCEPT !.client = "closed",
                                        !.backend = << [status_code |-> st, headers |-> h,
                                                        text |-> t, chunks |-> <<>>] >>],
                              st, relay_headers(h), buffered_content(t))]
    /\ Frozen

\* client.request raises; lines 305-322.
buffered_error(c) ==
    /\ rq[c].pc = "buffered_wait"
    /\ \E kind \in FAILURES :
          rq' = [rq EXCEPT ![c] =
                    HttpException([@ EXCEPT !.client = "closed", !.failure = kind],
                                  error_status(kind), error_detail(kind), <<>>)]
    /\ Frozen

(* Streaming relay, lines 231-262. *)

\* Lines 259-262: proxy_request returns the StreamingResponse around the
\* generator, which has not run yet; the framework sends the start of the
\* reply (status_code of the StreamingResponse: its default, 200) and only
\* then iterates the generator.
stream_return(c) ==
    /\ rq[c].pc = "relay"
    /\ rq[c].is_stream_request
    /\ rq' = [rq EXCEPT ![c] =
                 [@ EXCEPT !.pc = "generator", !.started = TRUE, !.status_code = 200,
                           !.resp_headers = << <<"content-type", "application/json">> >>]]
    /\ Frozen

\* Lines 237-244: the generator's first step opens the client and sends.
stream_open(c) ==
    /\ rq[c].pc = "generator"
    /\ rq' = [rq EXCEPT ![c] =
                 [@ EXCEPT !.pc = "stream_wait", !.client = "open",
                           !.outbound = Append(@, outbound_request(rq[c]))]]
    /\ Frozen

\* The backend begins to respond: lines 244-246.
stream_response(c, statuses, headerlists, chunklists) ==
    /\ rq[c].pc = "stream_wait"
    /\ \E st \in statuses, h \in headerlists, cs \in chunklists :
          rq' = [rq EXCEPT ![c] =
                    [@ EXCEPT !.pc = "iterate",
                              !.backend = << [status_code |-> st, headers |-> h,
                                              text |-> "", chunks |-> cs] >>]]
    /\ Frozen

\* client.stream raises inside the generator, outside the try of
\* proxy_request, which has returned: the reply that was started is cut.
stream_error(c) ==
    /\ rq[c].pc = "stream_wait"
    /\ \E kind \in FAILURES :
          rq' = [rq EXCEPT ![c] =
                    [@ EXCEPT !.pc = "done", !.client = "closed", !.failure = kind]]
    /\ Frozen

\* Line 249: aiter_bytes hands over the next chunk.
recv_chunk(c) ==
    /\ rq[c].pc = "iterate"
    /\ Len(rq[c].received) < Len(rq[c].backend[1].chunks)
    /\ rq' = [rq EXCEPT ![c] =
                 [@ EXCEPT !.pc = "yield",
                           !.received = Append(@, rq[c].backend[1].chunks[Len(@) + 1])]]
    /\ Frozen

\* Line 253: yield chunk.
yield_chunk_mut_skip(c) ==
    /\ rq[c].pc = "yield"
    /\ rq' = [rq EXCEPT ![c] =
                 [@ EXCEPT !.pc = "iterate",
                           !.delivered = IF Len(@) = 0
                                         THEN Append(@, rq[c].received[Len(rq[c].received)])
                                         ELSE @]]
    /\ Frozen

yield_chunk(c) ==
    /\ rq[c].pc = "yield"
    /\ rq' = [rq EXCEPT ![c] =
                 [@ EXCEPT !.pc = "iterate",
                           !.delivered = Append(@, rq[c].received[Len(rq[c].received)])]]
    /\ Frozen

\* The backend's body is exhausted: the generator ends, both "async with"
\* blocks are left, the reply is complete.
stream_end(c) ==
    /\ rq[c].pc = "iterate"
    /\ Len(rq[c].received) = Len(rq[c].backend[1].chunks)
    /\ rq' = [rq EXCEPT ![c] =
                 [@ EXCEPT !.pc = "done", !.client = "closed", !.complete = TRUE]]
    /\ Frozen

\* The backend fails while the body is read: aiter_bytes raises.
stream_abort(c) ==
    /\ rq[c].pc = "iterate"
    /\ Len(rq[c].received) < Len(rq[c].backend[1].chunks)
    /\ \E kind \in FAILURES \ {"ConnectError"} :
          rq' = [rq EXCEPT ![c] =
                    [@ EXCEPT !.pc = "done", !.client = "closed", !.failure = kind]]
    /\ Frozen

\* The caller disconnects while its request is being relayed.  A streamed
\* reply is given up: its generator is closed where it stands, and leaving
\* the two "async with" blocks of lines 242-244 closes the response and the
\* client.  The buffered handler is not interrupted: it runs on to the end
\* of its own "async with" (line 266), and its reply goes nowhere.
caller_disconnect_mut_leak(c) ==
    /\ rq[c].pc \in {"generator", "stream_wait", "iterate", "yield", "buffered_wait"}
    /\ ~rq[c].disconnected
    /\ rq' = [rq EXCEPT ![c] =
                 IF rq[c].pc = "buffered_wait"
                 THEN [@ EXCEPT !.disconnected = TRUE]
                 ELSE [@ EXCEPT !.pc = "done", !.disconnected = TRUE]]
    /\ Frozen

caller_disconnect(c) ==
    /\ rq[c].pc \in {"generator", "stream_wait", "iterate", "yield", "buffered_wait"}
    /\ ~rq[c].disconnected
    /\ rq' = [rq EXCEPT ![c] =
                 IF rq[c].pc = "buffered_wait"
                 THEN [@ EXCEPT !.disconnected = TRUE]
                 ELSE [@ EXCEPT !.pc = "done", !.disconnected = TRUE,
                                !.client = IF @ = "open" THEN "closed" ELSE @]]
    /\ Frozen

---------------------------------------------------------------------------
(* The inputs the specifications draw from.                                *)

TOKEN == <<"t", "k">>

CfgNone == << <<"">> >>

CfgAB == << <<"a", "hostA", "11434">>, <<"b", "11435">> >>

CfgHealth == << <<"health", "hostH", "11436">>, <<"a", "hostA", "11434">> >>

CfgDup == << <<"b", "hostB", "11435">>, <<"junk">>, <<"a", "11434">>,
             <<"b", "hostA", "11436">> >>

\* Entries a configuration is made of: well formed with two and three
\* parts, blank-padded, empty, and malformed with one and four parts.
EntryPool ==
    { <<"">>, <<"junk">>, <<"a", "b", "c", "d">>,
      <<"a", "hostA", "11434">>, <<"a", "11436">>,
      <<" b", "hostB", "11435 ">>, <<"b", "11437">> }

\* str.split(",") yields at least one entry.
Configs == SeqsUpTo(EntryPool, MaxEntries) \ {<<>>}

Segments == {"", "a", "b", "health", "api"}

Paths == SeqsUpTo(Segments, MaxPathLen) \ {<<>>}

AuthHeader(v) == <<"authorization", v>>

\* Authorization values: up to MaxPieces pieces, one after the other.
Pieces ==
    { BEARER, TOKEN, <<" ">>, <<"x">>, <<"B", "e", "a", "r">>, <<"e", "r", " ">> }

\* The HTTP server strips the optional whitespace around a field value, so
\* the values that reach the application carry none.
AuthValues ==
    {v \in {Concat(ps) : ps \in SeqsUpTo(Pieces, MaxPieces)} : Strip(v) = v}

HeaderPool ==
    { AuthHeader(TOKEN), AuthHeader(BEARER \o TOKEN), <<"host", <<"p">> >>,
      <<"accept", <<"x">> >>, <<"accept", <<"y">> >> }

\* Backend header lists as response.headers.items() yields them: lower-case
\* names, one item per name.
BackendHeaderLists ==
    { <<>>,
      << <<"content-length", "9">>, <<"x-b", "1">> >>,
      << <<"content-type", "text/plain">>, <<"content-encoding", "gzip">>,
         <<"transfer-encoding", "chunked">>, <<"connection", "keep-alive">> >> }

Chunks == {"c1", "c2"}

StreamBody == "{\"stream\": true}"

Pools ==
    [ conns       |-> {"c1"},
      methods     |-> METHODS,
      paths       |-> Paths,
      headers     |-> { <<>>, <<AuthHeader(TOKEN)>>, <<AuthHeader(<<"x">>)>> },
      queries     |-> {""},
      bodies      |-> {"", StreamBody},
      statuses    |-> {200},
      respheaders |-> { <<>> },
      texts       |-> {"{\"ok\": 1}"},
      chunklists  |-> { <<"c1">> } ]

AuthPools ==
    [ Pools EXCEPT !.methods = {"GET", "POST"},
                   !.paths   = { <<"">>, <<"health">>, <<"api", "tags">>, <<"a", "api">> },
                   !.headers = { <<>> } \cup { <<AuthHeader(v)>> : v \in AuthValues } ]

RelayPools ==
    [ Pools EXCEPT !.methods     = {"GET", "POST"},
                   !.paths       = { <<"">>, <<"health">>, <<"a", "api">>, <<"api">> },
                   !.headers     = SeqsUpTo(HeaderPool, MaxHeaders),
                   !.queries     = {"", "k=v"},
                   !.bodies      = {"", StreamBody, "{\"stream\": false}", "not json"},
                   !.statuses    = {200, 404, 500},
                   !.respheaders = BackendHeaderLists,
                   !.texts       = {"", "{\"ok\": 1}", "[true]", "oops"},
                   !.chunklists  = SeqsUpTo(Chunks, MaxChunks) ]

---------------------------------------------------------------------------
(* Specifications.                                                         *)

Step(P) ==
    \E c \in P.conns :
        \/ Receive(c, P.methods, P.paths, P.headers, P.queries, P.bodies)
        \/ root(c)
        \/ health(c)
        \/ authenticate(c)
        \/ proxy_with_instance(c)
        \/ proxy_default(c)
        \/ proxy_request(c)
        \/ buffered_send(c)
        \/ buffered_response(c, P.statuses, P.respheaders, P.texts)
        \/ buffered_error(c)
        \/ stream_return(c)
        \/ stream_open(c)
        \/ stream_response(c, P.statuses, P.respheaders, P.chunklists)
        \/ stream_error(c)
        \/ recv_chunk(c)
        \/ yield_chunk(c)
        \/ stream_end(c)
        \/ stream_abort(c)

\* Routing: every method and path, under every registry.
Init == Startup({CfgNone, CfgAB, CfgHealth, CfgDup}, {<<>>, TOKEN})

Next == Step(Pools)

Spec == Init /\ [][Next]_vars

\* The authenticator: many Authorization values.
InitAuth == Startup({CfgAB}, {<<>>, TOKEN, <<"x">>})

NextAuth == Step(AuthPools)

SpecAuth == InitAuth /\ [][NextAuth]_vars

\* The forwarding engine: header lists, bodies and backend behaviours.
RegistryPools ==
    [Pools EXCEPT !.methods = {"GET", "POST"},
                  !.paths   = { <<"">>, <<"health">>, <<"api">>, <<"a", "x">> },
                  !.headers = { <<>> }]

InitRegistry == Startup(Configs, {<<>>})

NextRegistry == Step(RegistryPools)

SpecRegistry == InitRegistry /\ [][NextRegistry]_vars

\* Every body of the JSON table, the empty body and one that does not parse.
SniffBodies == {JsonTable[i][1] : i \in 1..Len(JsonTable)} \cup {"", "not json"}

SniffPools ==
    [Pools EXCEPT !.methods = {"GET", "POST"},
                  !.paths   = { <<"">>, <<"health">>, <<"api">>, <<"a", "x">> },
                  !.headers = { <<>> },
                  !.bodies  = SniffBodies]

InitSniff == Startup({CfgAB}, {<<>>})

NextSniff == Step(SniffPools)

SpecSniff == InitSniff /\ [][NextSniff]_vars

\* Teardown: every way a relay can end, the caller's going away included.
TeardownPools ==
    [Pools EXCEPT !.methods    = {"GET", "POST"},
                  !.paths      = { <<"">>, <<"health">>, <<"api">>, <<"a", "x">> },
                  !.headers    = { <<>> },
                  !.statuses   = {200, 500},
                  !.texts      = {"{\"ok\": 1}", "oops"},
                  !.chunklists = SeqsUpTo(Chunks, MaxChunks)]

InitTeardown == Startup({CfgAB}, {<<>>})

NextTeardown ==
    \/ Step(TeardownPools)
    \/ \E c \in TeardownPools.conns : caller_disconnect(c)

SpecTeardown == InitTeardown /\ [][NextTeardown]_vars

\* Concurrency: two requests in flight at once, their steps interleaved.
ConcurrentPools ==
    [Pools EXCEPT !.conns   = CONNECTIONS,
                  !.methods = {"GET", "POST"},
                  !.paths   = { <<"">>, <<"health">>, <<"api">>, <<"b", "x">> },
                  !.headers = { <<>>, <<AuthHeader(TOKEN)>> }]

InitConcurrent == Startup({CfgAB}, {TOKEN})

NextConcurrent == Step(ConcurrentPools)

SpecConcurrent == InitConcurrent /\ [][NextConcurrent]_vars

InitRelay == Startup({CfgAB}, {<<>>, TOKEN})

NextRelay == Step(RelayPools)

SpecRelay == InitRelay /\ [][NextRelay]_vars

---------------------------------------------------------------------------
(* What the claims speak of.                                               *)

Proxied(q) == q.route \in {"proxy_with_instance", "proxy_default"}

\* The Optional Authorization value of the request.
Credential(q) == header_get(q.headers, "authorization")

\* The credential is the secret, bare or behind one "Bearer " prefix.
Matches(value, token) == value = token \/ value = BEARER \o token

\* verify_token has answered the request itself.
Refused(q) ==
    /\ q.auth_checked
    /\ q.pc = "done"
    /\ q.target_url = <<>>
    /\ q.content[1] = "detail"

Admitted(q) ==
    /\ q.auth_checked
    /\ ~Refused(q)

Dispatched(q) == q.outbound # <<>>

---------------------------------------------------------------------------
(* Claims.                                                                 *)

\* C1: with a secret configured, a request on a proxied route whose
\* Authorization header is absent or is neither the secret nor "Bearer "
\* followed by the secret never has its body read by the forwarding engine
\* and never causes an outbound request or a backend connection.
C1_GateBlocksNonMatching ==
    \A c \in CONNECTIONS :
        LET q == rq[c]
        IN  ( /\ Proxied(q)
              /\ API_TOKEN # <<>>
              /\ \/ Credential(q) = <<>>
                 \/ ~Matches(Credential(q)[1], API_TOKEN) )
            => /\ ~q.body_read
               /\ ~Dispatched(q)
               /\ q.client = "none"

\* C2: for a configured secret T and a present header value v, verify_token
\* admits the request if and only if v is T or "Bearer " followed by T.
C2_ExactMatchOnly ==
    \A c \in CONNECTIONS :
        LET q == rq[c]
        IN  ( /\ Proxied(q)
              /\ q.auth_checked
              /\ API_TOKEN # <<>>
              /\ Credential(q) # <<>> )
            => (Admitted(q) <=> Matches(Credential(q)[1], API_TOKEN))

\* C3: with a secret configured, an absent header is answered 401 with
\* WWW-Authenticate: Bearer and never 403; a present header that does not
\* match is answered 403, and a present header is never answered 401.
C3_DenialReasonByPresence ==
    \A c \in CONNECTIONS :
        LET q == rq[c]
        IN  ( /\ Proxied(q)
              /\ q.auth_checked
              /\ API_TOKEN # <<>> )
            => /\ Credential(q) = <<>> =>
                    /\ Refused(q)
                    /\ q.status_code = 401
                    /\ q.resp_headers = << <<"WWW-Authenticate", "Bearer">> >>
               /\ ( /\ Credential(q) # <<>>
                    /\ ~Matches(Credential(q)[1], API_TOKEN) ) =>
                    /\ Refused(q)
                    /\ q.status_code = 403
               /\ Credential(q) # <<>> => ~(Refused(q) /\ q.status_code = 401)

\* The request is addressed to /n/<remainder> with n a configured name.
ToInstance(q) ==
    /\ Len(q.path) >= 2
    /\ DictHas(BACKENDS, q.path[1])

\* C4: an authorized request to /n/p, n a configured instance name, is
\* dispatched exactly once, to the base URL of n with forward path p, and is
\* never answered without a dispatch, whatever p is ("health" and the empty
\* path included).
C4_InstancePrefixRoutes ==
    \A c \in CONNECTIONS :
        LET q    == rq[c]
            want == [base |-> DictGet(BACKENDS, q.path[1]), path |-> Tail(q.path)]
        IN  (ToInstance(q) /\ Admitted(q))
            => /\ q.target_url # <<>> => q.target_url[1] = want
               /\ Dispatched(q) => Len(q.outbound) = 1 /\ q.outbound[1].url = want
               /\ q.pc = "done" => Dispatched(q)

C4_Witness ==
    \E c \in CONNECTIONS :
        /\ rq[c].pc = "done"
        /\ rq[c].path = <<"a", "health">>
        /\ DictHas(BACKENDS, "a")
        /\ API_TOKEN # <<>>
        /\ Dispatched(rq[c])
        /\ rq[c].outbound[1].url = [base |-> <<"hostA", "11434">>, path |-> <<"health">>]

\* The request is addressed to /s/<remainder> with s not a configured name.
ToUnknownPrefix(q) ==
    /\ Len(q.path) >= 2
    /\ ~DictHas(BACKENDS, q.path[1])

\* C5 as stated: an authorized request to /s/p, s not a configured instance
\* name, is dispatched to the default backend with forward path s/p.
C5_UnknownPrefixKeepsWholePath ==
    \A c \in CONNECTIONS :
        LET q    == rq[c]
            want == [base |-> DEFAULT_BACKEND, path |-> q.path]
        IN  (ToUnknownPrefix(q) /\ Admitted(q))
            => /\ q.target_url # <<>> => q.target_url[1] = want
               /\ Dispatched(q) => Len(q.outbound) = 1 /\ q.outbound[1].url = want
               /\ q.pc = "done" => Dispatched(q)

\* C5 as amended: the forward path is s/p, except that a non-empty s with
\* the empty remainder is forwarded as s, without the trailing slash.
C5_UnknownPrefixRoutesToDefault ==
    \A c \in CONNECTIONS :
        LET q    == rq[c]
            fwd  == IF q.path[1] # "" /\ Tail(q.path) = <<"">>
                    THEN <<q.path[1]>>
                    ELSE q.path
            want == [base |-> DEFAULT_BACKEND, path |-> fwd]
        IN  (ToUnknownPrefix(q) /\ Admitted(q))
            => /\ q.target_url # <<>> => q.target_url[1] = want
               /\ Dispatched(q) => Len(q.outbound) = 1 /\ q.outbound[1].url = want
               /\ q.pc = "done" => Dispatched(q)

C5_Witness ==
    \E c \in CONNECTIONS :
        /\ rq[c].pc = "done"
        /\ rq[c].path = <<"api", "">>
        /\ DictHas(BACKENDS, "b")
        /\ API_TOKEN # <<>>
        /\ Dispatched(rq[c])
        /\ rq[c].outbound[1].url = [base |-> <<"hostA", "11434">>, path |-> <<"api">>]

\* C6: a request to "/" or to "/health" never causes an outbound request or
\* a backend connection, for every method, registry and credential; it is
\* answered by the proxy itself, and with no secret configured "/health" is
\* answered 200 with a status field.
C6_RootAndHealthAreLocal ==
    \A c \in CONNECTIONS :
        LET q == rq[c]
        IN  q.path \in {<<"">>, <<"health">>}
            => /\ ~Dispatched(q)
               /\ q.client = "none"
               /\ q.target_url = <<>>
               /\ ~q.body_read
               /\ q.pc \in {"idle", "matched", "handler", "done"}
               /\ (q.pc = "done" /\ q.path = <<"health">> /\ API_TOKEN = <<>>)
                    => /\ q.status_code = 200
                       /\ q.content \in {<<"status", "healthy">>, <<"status", "ok">>}

C6_Witness ==
    \E c \in CONNECTIONS :
        /\ rq[c].pc = "done"
        /\ rq[c].path = <<"health">>
        /\ rq[c].method = "DELETE"
        /\ DictHas(BACKENDS, "health")
        /\ API_TOKEN # <<>>
        /\ rq[c].status_code = 200
        /\ ~Dispatched(rq[c])

\* The request is relayed by the streaming strategy.
Streaming(q) == q.is_stream_request /\ q.pc # "relay"

\* C7: in the streaming strategy the reply to the caller begins only once
\* the backend has begun to respond, and its status code is the backend's.
C7_StreamRelaysBackendStatus ==
    \A c \in CONNECTIONS :
        LET q == rq[c]
        IN  (Streaming(q) /\ q.started)
            => /\ q.backend # <<>>
               /\ q.status_code = q.backend[1].status_code

\* C8: under either strategy, a request whose dispatch failed before any
\* backend data was relayed ends with a complete JSON reply carrying a
\* detail field and the status 502 (connection), 504 (timeout) or 500 (any
\* other failure).
C8_DispatchFailureIsCleanError ==
    \A c \in CONNECTIONS :
        LET q == rq[c]
        IN  (q.pc = "done" /\ q.failure # "none" /\ q.delivered = <<>>)
            => /\ q.complete
               /\ q.content # <<>>
               /\ q.content[1] = "detail"
               /\ q.failure = "ConnectError" => q.status_code = 502
               /\ q.failure = "TimeoutException" => q.status_code = 504
               /\ q.failure = "Exception" => q.status_code = 500

\* C9: in a streamed reply the chunks delivered to the caller are at every
\* moment a prefix of the chunks received from the backend, themselves a
\* prefix of the backend's body, and when the backend completes without a
\* failure the caller has been delivered the whole body.
C9_StreamOrderPreserved ==
    \A c \in CONNECTIONS :
        LET q == rq[c]
        IN  (Streaming(q) /\ q.backend # <<>>)
            => /\ IsPrefix(q.delivered, q.received)
               /\ IsPrefix(q.received, q.backend[1].chunks)
               /\ Len(q.received) - Len(q.delivered) <= 1
               /\ (q.pc = "done" /\ q.failure = "none")
                    => /\ q.delivered = q.backend[1].chunks
                       /\ q.complete

C9_Witness ==
    \E c \in CONNECTIONS :
        /\ rq[c].pc = "done"
        /\ rq[c].failure = "none"
        /\ rq[c].is_stream_request
        /\ rq[c].backend # <<>>
        /\ rq[c].backend[1].chunks = <<"c2", "c1">>
        /\ rq[c].delivered = <<"c2", "c1">>

\* The <<name, value>> pairs of a header list, as a set.
HeaderSet(headers) == {headers[i] : i \in 1..Len(headers)}

\* C10: the outbound request has the method, the query and the body of the
\* inbound request, and its headers are exactly the inbound headers whose
\* name is neither host nor authorization.
C10_OutboundMirrorsInbound ==
    \A c \in CONNECTIONS :
        LET q == rq[c]
        IN  \A i \in 1..Len(q.outbound) :
                /\ q.outbound[i].method = q.method
                /\ q.outbound[i].params = q.query
                /\ q.outbound[i].content = q.body
                /\ HeaderSet(q.outbound[i].headers)
                     = {h \in HeaderSet(q.headers) : h[1] \notin {"host", "authorization"}}

\* The request was relayed by the buffered strategy and the backend answered.
BufferedAnswer(q) ==
    /\ q.pc = "done"
    /\ ~q.is_stream_request
    /\ q.backend # <<>>

\* The fields (or the literal) written in a JSON text of the model.
Written(text) ==
    LET e == JsonTable[CHOOSE i \in 1..Len(JsonTable) : JsonTable[i][1] = text]
    IN  [type |-> e[2], fields |-> e[3], literal |-> IF e[2] = "object" THEN "" ELSE e[1]]

IsJson(text) == \E i \in 1..Len(JsonTable) : JsonTable[i][1] = text

C12_UnparseableBodyIsWrapped ==
    \A c \in CONNECTIONS :
        LET q == rq[c]
        IN  (BufferedAnswer(q) /\ ~IsJson(q.backend[1].text))
            => /\ q.complete
               /\ q.status_code = q.backend[1].status_code
               /\ q.content = <<"raw_response", q.backend[1].text>>

\* C12 as amended: a non-empty body that does not parse is relayed in the
\* wrapper, an empty body is relayed as the empty object; both with the
\* backend's status code, and neither as an error reply of the proxy.
C12_DecodeFailureRecovered ==
    \A c \in CONNECTIONS :
        LET q == rq[c]
        IN  (BufferedAnswer(q) /\ ~IsJson(q.backend[1].text))
            => /\ q.complete
               /\ q.status_code = q.backend[1].status_code
               /\ q.failure = "none"
               /\ q.content = IF q.backend[1].text = ""
                              THEN <<"json", [type |-> "object", fields |-> <<>>, literal |-> ""]>>
                              ELSE <<"raw_response", q.backend[1].text>>

C12_Witness ==
    \E c \in CONNECTIONS :
        /\ BufferedAnswer(rq[c])
        /\ rq[c].backend[1].text = "oops"
        /\ rq[c].backend[1].status_code = 200
        /\ rq[c].status_code = 200
        /\ rq[c].content = <<"raw_response", "oops">>

HOP_BY_HOP == {"content-encoding", "content-length", "transfer-encoding", "connection"}

\* C13: no reply relayed from a backend carries one of the backend's
\* hop-by-hop headers, and a buffered reply carries every other header of
\* the backend's response, unchanged.
C13_HopByHopStripped ==
    \A c \in CONNECTIONS :
        LET q == rq[c]
        IN  q.backend # <<>>
            => /\ \A h \in HeaderSet(q.resp_headers) :
                     h \in HeaderSet(q.backend[1].headers) => h[1] \notin HOP_BY_HOP
               /\ BufferedAnswer(q)
                    => HeaderSet(q.resp_headers)
                         = {h \in HeaderSet(q.backend[1].headers) : h[1] \notin HOP_BY_HOP}

C13_Witness ==
    \E c \in CONNECTIONS :
        /\ BufferedAnswer(rq[c])
        /\ Len(rq[c].backend[1].headers) = 4
        /\ rq[c].resp_headers = << <<"content-type", "text/plain">> >>

\* Configuration entries as the claims speak of them.
WellFormed(entry) == Len(strip_split(entry)) \in {2, 3}

EntryName(entry) == strip_split(entry)[1]

EntryUrl(entry) ==
    LET parts == strip_split(entry)
    IN  IF Len(parts) = 3 THEN <<parts[2], parts[3]>> ELSE <<"localhost", parts[2]>>

WellFormedAt(config) == {i \in 1..Len(config) : WellFormed(config[i])}

FirstWellFormed(config) ==
    config[CHOOSE i \in WellFormedAt(config) : \A j \in WellFormedAt(config) : i <= j]

\* The last well-formed entry that bears the given name.
LastNamed(config, name) ==
    LET at == {i \in WellFormedAt(config) : EntryName(config[i]) = name}
    IN  config[CHOOSE i \in at : \A j \in at : j <= i]

RootReply(q) == q.pc = "done" /\ q.route = "root"

\* C14 as stated: the registry is never empty, and the root endpoint never
\* reports an empty list of instances.
C14_RegistryNeverEmpty ==
    /\ BACKENDS # <<>>
    /\ \A c \in CONNECTIONS : RootReply(rq[c]) => rq[c].content[6] # <<>>

\* C14 as amended: the registry holds the names of the well-formed entries
\* and is empty when there is none; the default backend is defined all the
\* same, as http://localhost:11434 when the registry is empty; the root
\* endpoint reports the names of the registry, an empty list included.
C14_DefaultAlwaysDefined ==
    /\ {BACKENDS[i][1] : i \in 1..Len(BACKENDS)}
         = {EntryName(OLLAMA_INSTANCES[i]) : i \in WellFormedAt(OLLAMA_INSTANCES)}
    /\ BACKENDS = <<>> => DEFAULT_BACKEND = <<"localhost", "11434">>
    /\ BACKENDS # <<>> => DEFAULT_BACKEND = BACKENDS[1][2]
    /\ \A c \in CONNECTIONS :
          RootReply(rq[c])
            => rq[c].content[6] = [i \in 1..Len(BACKENDS) |-> BACKENDS[i][1]]

C14_Witness ==
    \E c \in CONNECTIONS :
        /\ OLLAMA_INSTANCES = << <<"junk">>, <<"a", "b", "c", "d">> >>
        /\ BACKENDS = <<>>
        /\ DEFAULT_BACKEND = <<"localhost", "11434">>
        /\ RootReply(rq[c])
        /\ rq[c].content[6] = <<>>

\* A request the no-prefix route has sent to a backend.
DefaultRouted(q) == q.route = "proxy_default" /\ q.outbound # <<>>

\* C15 as stated: the default backend is the address of the first
\* well-formed entry of the configuration, and http://localhost:11434 only
\* when there is none; default routing goes there.
C15_DefaultIsFirstEntry ==
    /\ DEFAULT_BACKEND
         = IF WellFormedAt(OLLAMA_INSTANCES) = {} THEN <<"localhost", "11434">>
           ELSE EntryUrl(FirstWellFormed(OLLAMA_INSTANCES))
    /\ \A c \in CONNECTIONS :
          DefaultRouted(rq[c]) => rq[c].outbound[1].url.base = DEFAULT_BACKEND

\* C15 as amended: the default backend is the address registered under the
\* name of the first well-formed entry, which is the address of the last
\* well-formed entry bearing that name; it is http://localhost:11434 only
\* when there is no well-formed entry; default routing goes there.
C15_DefaultIsFirstName ==
    /\ DEFAULT_BACKEND
         = IF WellFormedAt(OLLAMA_INSTANCES) = {} THEN <<"localhost", "11434">>
           ELSE EntryUrl(LastNamed(OLLAMA_INSTANCES,
                                   EntryName(FirstWellFormed(OLLAMA_INSTANCES))))
    /\ \A c \in CONNECTIONS :
          DefaultRouted(rq[c]) => rq[c].outbound[1].url.base = DEFAULT_BACKEND

C15_Witness ==
    \E c \in CONNECTIONS :
        /\ OLLAMA_INSTANCES = << <<"a", "hostA", "11434">>, <<"a", "11436">> >>
        /\ DefaultRouted(rq[c])
        /\ rq[c].outbound[1].url.base = <<"localhost", "11436">>

\* C16: with no secret configured no request is refused, whatever its
\* Authorization header (absent, empty or any value): every request on a
\* proxied route reaches its handler, and the root endpoint reports
\* authentication as disabled.
C16_NoSecretAllowsAll ==
    API_TOKEN = <<>>
    => \A c \in CONNECTIONS :
          LET q == rq[c]
          IN  /\ ~Refused(q)
              /\ q.status_code \notin {401, 403}
              /\ (Proxied(q) /\ q.pc = "done")
                    => /\ q.auth_checked
                       /\ q.target_url # <<>> \/ q.content = <<"status", "ok">>
              /\ RootReply(q) => q.content[8] = "disabled"

C16_Witness ==
    \E c \in CONNECTIONS :
        /\ API_TOKEN = <<>>
        /\ Credential(rq[c]) = << <<"x">> >>
        /\ rq[c].pc = "done"
        /\ Dispatched(rq[c])
        /\ rq[c].status_code = 200

\* The strategy a dispatched request is relayed by: the streaming reply is
\* begun before the backend is contacted and has no content of its own, the
\* buffered reply is one JSON content.
ChoseStreaming(q) ==
    \/ q.pc \in {"generator", "stream_wait", "iterate", "yield"}
    \/ q.pc = "done" /\ q.body_read /\ q.started /\ q.content = <<>>

ChoseBuffered(q) ==
    \/ q.pc = "buffered_wait"
    \/ q.pc = "done" /\ q.body_read /\ q.content # <<>>

\* C17 as stated: the streaming strategy is chosen exactly for a body that
\* parses to an object whose stream member is the boolean true; every other
\* body is relayed buffered.
C17_StreamOnlyOnBooleanTrue ==
    \A c \in CONNECTIONS :
        LET q == rq[c]
        IN  /\ ChoseStreaming(q) => q.body = "{\"stream\": true}"
            /\ ChoseBuffered(q) => q.body # "{\"stream\": true}"

\* The bodies whose stream member Python takes for true: true, a number
\* other than zero, a string or an array that is not empty.
TruthyStreamBodies ==
    { "{\"stream\": true}", "{\"stream\": 1}", "{\"stream\": \"yes\"}",
      "{\"stream\": [1]}" }

\* C17 as amended: the streaming strategy is chosen exactly for a body that
\* parses to an object whose stream member is true in Python's sense; an
\* empty body, one that does not parse, a value that is no object, an
\* absent member and a member that is false, null, zero or empty are
\* relayed buffered.
C17_StreamOnTruthyMember ==
    \A c \in CONNECTIONS :
        LET q == rq[c]
        IN  /\ ChoseStreaming(q) => q.body \in TruthyStreamBodies
            /\ ChoseBuffered(q) => q.body \notin TruthyStreamBodies

C17_Witness ==
    \E c \in CONNECTIONS :
        /\ rq[c].body = "{\"stream\": 1}"
        /\ rq[c].pc = "done"
        /\ ChoseStreaming(rq[c])
        /\ rq[c].delivered = <<"c1">>

\* The states in which a handler or a generator is inside the "async with"
\* of its backend client.
InFlight == {"buffered_wait", "stream_wait", "iterate", "yield"}

AsAlone(q) ==
    /\ q.pc # "idle" => q.route = resolve_route(q.method, q.path)
    /\ q.auth_checked
         => (Refused(q) <=> ~verify_token(API_TOKEN, Credential(q)).allowed)
    /\ q.target_url # <<>>
         => /\ q.auth_checked /\ ~Refused(q)
            /\ q.target_url[1].base
                 = IF Len(q.path) >= 2 /\ DictHas(BACKENDS, q.path[1])
                   THEN DictGet(BACKENDS, q.path[1])
                   ELSE DEFAULT_BACKEND
    /\ q.outbound # <<>> => q.outbound = << outbound_request(q) >>
    /\ BufferedAnswer(q)
         => /\ q.status_code = q.backend[1].status_code
            /\ q.content = buffered_content(q.backend[1].text)
    /\ IsPrefix(q.delivered, q.received)

\* Two requests that are the same and have met the same backend behaviour
\* are in the same state, whatever the other one did in between.
Agree(p, q) ==
    ( /\ p.method = q.method /\ p.path = q.path /\ p.headers = q.headers
      /\ p.query = q.query /\ p.body = q.body
      /\ p.pc = q.pc /\ p.backend = q.backend /\ p.failure = q.failure
      /\ p.received = q.received )
    => p = q

\* One step is one request's: it leaves the other requests as they are, and
\* the registry, the default backend and the secret as startup made them.
OwnStep ==
    /\ <<OLLAMA_INSTANCES, API_TOKEN, BACKENDS, DEFAULT_BACKEND>>'
         = <<OLLAMA_INSTANCES, API_TOKEN, BACKENDS, DEFAULT_BACKEND>>
    /\ \A c, d \in CONNECTIONS : (c # d /\ rq'[c] # rq[c]) => rq'[d] = rq[d]

\* C19: under every interleaving of two concurrent requests no step changes
\* the registry, the default backend or the secret, every step touches one
\* request only, and the route, the authorization outcome, the target and
\* the reply of each request are those of the request run alone.
C19_RequestsIndependent ==
    /\ [][OwnStep]_vars
    /\ [](\A c \in CONNECTIONS : AsAlone(rq[c]))
    /\ [](\A c, d \in CONNECTIONS : Agree(rq[c], rq[d]))

C19_Witness ==
    /\ rq["c1"].pc = "yield"
    /\ rq["c1"].target_url[1].base = <<"localhost", "11435">>
    /\ rq["c2"].pc = "buffered_wait"
    /\ rq["c2"].target_url[1].base = <<"hostA", "11434">>
    /\ rq["c2"].path = <<"api">>
    /\ BACKENDS = << <<"a", <<"hostA", "11434">> >>, <<"b", <<"localhost", "11435">> >> >>

\* A request to /n, n a configured instance name, with no slash after it.
BareName(q) ==
    /\ q.pc # "idle"
    /\ Len(q.path) = 1
    /\ DictHas(BACKENDS, q.path[1])

\* The request is dispatched once, to the default backend, with its whole
\* path as forward path.
SentToDefault(q) ==
    /\ Len(q.outbound) = 1
    /\ q.outbound[1].url = [base |-> DEFAULT_BACKEND, path |-> q.path]

\* A backend is selected by name only for a path /n/<remainder>.
SelectedByPrefixOnly(q) ==
    q.instance_name \notin {"", "default"}
        => /\ Len(q.path) >= 2
           /\ q.path[1] = q.instance_name

\* C20 as stated: a request to /n is handled by the no-prefix route and,
\* once authorized, dispatched to the default backend with forward path n;
\* backend n is selected only for /n/<remainder>.
C20_BareNameGoesToDefault ==
    \A c \in CONNECTIONS :
        LET q == rq[c]
        IN  /\ BareName(q)
                 => /\ q.route = "proxy_default"
                    /\ (q.pc = "done" /\ Admitted(q)) => SentToDefault(q)
            /\ SelectedByPrefixOnly(q)

\* C20 as amended: the same for every name but "health"; a request to
\* /health is answered by the proxy itself and never dispatched, also when
\* an instance is named health.
C20_BareNameButHealthGoesToDefault ==
    \A c \in CONNECTIONS :
        LET q == rq[c]
        IN  /\ (BareName(q) /\ q.path # <<"health">>)
                 => /\ q.route = "proxy_default"
                    /\ (q.pc = "done" /\ Admitted(q)) => SentToDefault(q)
            /\ (BareName(q) /\ q.path = <<"health">>)
                 => /\ q.route = IF q.method = "GET" THEN "health" ELSE "proxy_default"
                    /\ q.outbound = <<>>
                    /\ (q.pc = "done" /\ ~Refused(q)) => q.status_code = 200
            /\ SelectedByPrefixOnly(q)

C20_Witness ==
    \E c \in CONNECTIONS :
        /\ rq[c].path = <<"b">>
        /\ DictHas(BACKENDS, "b")
        /\ DEFAULT_BACKEND = <<"hostA", "11434">>
        /\ rq[c].pc = "done"
        /\ rq[c].route = "proxy_default"
        /\ Len(rq[c].outbound) = 1
        /\ rq[c].outbound[1].url = [base |-> <<"hostA", "11434">>, path |-> <<"b">>]

=============================================================================
